---- MODULE Spec2Model ----
(***************************************************************************)
(* Ranking and relevance-feedback engine of the clinical trials search     *)
(* engine: Ranker (evaluation/ranking.py), Pipeline.rank / Pipeline.rerank *)
(* (pipeline.py), ClinicalBERT.__call__ (evaluation/embed.py) and the      *)
(* session history kept by GUI (gui.py).                                   *)
(*                                                                         *)
(* Scores are fixed-point numbers: the float 1.0 is ScoreOne.  Similarity  *)
(* values are tenths: the float 1.0 is SimOne.                             *)
(***************************************************************************)
EXTENDS Integers, Sequences, FiniteSets, TLC

VARIABLES
    search_history,   \* GUI.search_history: sequence of search states
    heap,             \* the entry dicts of the current search, by object id
    expansion,        \* GUI.expansion
    original_top,     \* Pipeline.original_top
    translated_top,   \* Pipeline.translated_top
    expanded_top,     \* Pipeline.expanded_top
    toggles,          \* value shown by the feedback toggle of each displayed card
    nfeedback,        \* feedback events since the last fresh search (bounded)
    last,             \* the last GUI operation and what it was given (history variable)
    call              \* one call of Ranker.rank / Ranker.rerank on drawn inputs

vars == <<search_history, heap, expansion, original_top, translated_top,
          expanded_top, toggles, nfeedback, last, call>>

session_vars == <<search_history, heap, expansion, original_top, translated_top,
                  expanded_top, toggles, nfeedback, last>>

----------------------------------------------------------------------------
(* Bounds of the model *)

MaxFeedback == 3

MaxListLen == 2

MaxTopn == 2

MaxNmax == 4

MaxRanked == 3

\* Pipeline.topn as GUI._rank sets it (topn = 15 in the source), scaled down
RetrievalTopn == 2

----------------------------------------------------------------------------
(* Numbers *)

\* similarity values carry one decimal digit
SimOne == 10 ^ 1

ScoreOne == 10 ^ (MaxFeedback + 1)

Min(a, b) == IF a <= b THEN a ELSE b

Max(a, b) == IF a >= b THEN a ELSE b

Range(s) == {s[i] : i \in DOMAIN s}

\* Python s[:n]
\* mutant: the slice keeps the whole list
PyHeadWhole(s, n) == s

PyHead(s, n) ==
    IF n >= 0 THEN SubSeq(s, 1, Min(n, Len(s)))
              ELSE SubSeq(s, 1, Max(Len(s) + n, 0))

\* mutant: the slice starts one element late
PyTailSkipsOne(s, n) ==
    IF n >= 0 THEN SubSeq(s, Min(n + 1, Len(s)) + 1, Len(s))
              ELSE SubSeq(s, Max(Len(s) + n + 1, 0) + 1, Len(s))

\* Python s[n:]
PyTail(s, n) ==
    IF n >= 0 THEN SubSeq(s, Min(n, Len(s)) + 1, Len(s))
              ELSE SubSeq(s, Max(Len(s) + n, 0) + 1, Len(s))

\* mutant: x is placed before the elements whose key equals key[x]
InsertDescBeforeTies(x, s, key) ==
    LET n == Cardinality({i \in DOMAIN s : key[s[i]] > key[x]})
    IN  SubSeq(s, 1, n) \o <<x>> \o SubSeq(s, n + 1, Len(s))

\* x placed behind every element of the descending sequence s whose key is >= key[x]
InsertDesc(x, s, key) ==
    LET n == Cardinality({i \in DOMAIN s : key[s[i]] >= key[x]})
    IN  SubSeq(s, 1, n) \o <<x>> \o SubSeq(s, n + 1, Len(s))

\* Python sorted(s, key = ..., reverse = True): descending, equal keys keep their order
RECURSIVE SortedDesc(_, _)
SortedDesc(s, key) ==
    IF s = <<>> THEN <<>>
    ELSE InsertDesc(s[Len(s)], SortedDesc(SubSeq(s, 1, Len(s) - 1), key), key)

ScoreKey(docs) == [d \in Range(docs) |-> d.score]

SortedByScore(docs) == SortedDesc(docs, ScoreKey(docs))

----------------------------------------------------------------------------
(* Ranker.rank *)

min_score == 0

max_score == 1

\* the list comprehensions of Ranker.rank: tuples (docno, score) to dicts
ToDocs(tuples, source) ==
    [i \in DOMAIN tuples |->
        [docno |-> tuples[i][1], score |-> tuples[i][2], from_query |-> source]]

\* mutant: the divisor is one too large
NormalizeWithWiderSpan(doc_list, lo, hi) ==
    [i \in DOMAIN doc_list |->
        [doc_list[i] EXCEPT !.score = (@ - lo * ScoreOne) \div (hi - lo + 1)]]

\* the body of the loop of _normalize for one list, under the bounds lo and hi
NormalizeWith(doc_list, lo, hi) ==
    IF doc_list = <<>> THEN doc_list
    ELSE IF hi = lo THEN doc_list
    ELSE [i \in DOMAIN doc_list |->
            [doc_list[i] EXCEPT !.score = (@ - lo * ScoreOne) \div (hi - lo)]]

Normalize(doc_list) == NormalizeWith(doc_list, min_score, max_score)

Docnos(docs) == {docs[i].docno : i \in DOMAIN docs}

\* mutant: an entry is also dropped when a later entry of the list is dropped
RemoveDoublesGreedy(original_docs, secondary_docs) ==
    LET kept == {i \in DOMAIN secondary_docs :
                    \A j \in i..Len(secondary_docs) :
                        secondary_docs[j].docno \notin Docnos(original_docs)}
    IN  SelectSeq(secondary_docs,
                  LAMBDA doc : \E i \in kept : secondary_docs[i] = doc)

RemoveDoubles(original_docs, secondary_docs) ==
    SelectSeq(secondary_docs, LAMBDA doc : doc.docno \notin Docnos(original_docs))

\* mutant: the top slices are cut from the lists as given, not from the sorted lists
GetRankedListUnsortedTop(original_docs, translated_docs, expanded_docs, topn, nmax) ==
    LET final_ranked_list ==
            PyHead(original_docs, topn) \o PyHead(translated_docs, topn)
                \o PyHead(expanded_docs, topn)
                \o SortedByScore(PyTail(original_docs, topn) \o PyTail(original_docs, topn)
                                    \o PyTail(expanded_docs, topn))
        cut == PyHead(final_ranked_list, nmax)
    IN  [i \in DOMAIN cut |->
            [rank |-> i, docno |-> cut[i].docno, score |-> cut[i].score,
             from_query |-> cut[i].from_query]]

\* mutant: ranks are counted from 0 (enumerate without the + 1)
GetRankedListZeroRanks(original_docs, translated_docs, expanded_docs, topn, nmax) ==
    LET final_ranked_list ==
            PyHead(SortedByScore(original_docs), topn)
                \o PyHead(SortedByScore(translated_docs), topn)
                \o PyHead(SortedByScore(expanded_docs), topn)
                \o SortedByScore(PyTail(original_docs, topn) \o PyTail(original_docs, topn)
                                    \o PyTail(expanded_docs, topn))
        cut == PyHead(final_ranked_list, nmax)
    IN  [i \in DOMAIN cut |->
            [rank |-> i - 1, docno |-> cut[i].docno, score |-> cut[i].score,
             from_query |-> cut[i].from_query]]

GetRankedList(original_docs, translated_docs, expanded_docs, topn, nmax) ==
    LET top_original_docs == PyHead(SortedByScore(original_docs), topn)
        top_translated_docs == PyHead(SortedByScore(translated_docs), topn)
        top_expanded_docs == PyHead(SortedByScore(expanded_docs), topn)
        remaining_original_docs == PyTail(original_docs, topn)
        remaining_translated_docs == PyTail(original_docs, topn)
        remaining_expanded_docs == PyTail(expanded_docs, topn)
        mixed_remaining_docs == remaining_original_docs \o remaining_translated_docs
                                    \o remaining_expanded_docs
        sorted_mixed_remaining_docs == SortedByScore(mixed_remaining_docs)
        final_ranked_list == top_original_docs \o top_translated_docs
                                \o top_expanded_docs \o sorted_mixed_remaining_docs
        cut == PyHead(final_ranked_list, nmax)
    IN  [i \in DOMAIN cut |->
            [rank |-> i, docno |-> cut[i].docno, score |-> cut[i].score,
             from_query |-> cut[i].from_query]]

\* self.original_docs, self.translated_docs and self.expanded_docs as
\* _normalize and _remove_doubles leave them
RankerDocs(original, translated, expanded) ==
    LET o == Normalize(ToDocs(original, "original"))
        t == Normalize(ToDocs(translated, "translated"))
        e == Normalize(ToDocs(expanded, "expanded"))
    IN  [original_docs |-> o,
         translated_docs |-> RemoveDoubles(o, t),
         expanded_docs |-> RemoveDoubles(o, e)]

Ranker_rank(original, translated, expanded, topn, nmax) ==
    LET o == Normalize(ToDocs(original, "original"))
        t == Normalize(ToDocs(translated, "translated"))
        e == Normalize(ToDocs(expanded, "expanded"))
    IN  GetRankedList(o, RemoveDoubles(o, t), RemoveDoubles(o, e), topn, nmax)

----------------------------------------------------------------------------
(* Ranker.rerank.  hp is the heap of entry dicts, ranked_list a sequence of  *)
(* object ids: the dicts are updated in place, the list is rebuilt.          *)

\* 1-based index of the first occurrence of v in s (Python s.index(v) + 1)
FirstIndex(s, v) == CHOOSE i \in DOMAIN s : s[i] = v /\ \A j \in 1..(i - 1) : s[j] # v

\* Python ordered_similarity[-similarity_position], similarity_position 0-based
InverseSim(similarity_list, similarity_value) ==
    LET ordered_similarity ==
            SortedDesc(similarity_list, [v \in Range(similarity_list) |-> v])
        similarity_position == FirstIndex(ordered_similarity, similarity_value) - 1
    IN  IF similarity_position = 0 THEN ordered_similarity[1]
        ELSE ordered_similarity[Len(ordered_similarity) - similarity_position + 1]

\* score * sim in fixed point
Times(score, sim) == (score * sim) \div SimOne

NewScore(current_score, polarity, similarity_matrix, selected_doc_index, doc_to_update) ==
    LET sim_value == similarity_matrix[selected_doc_index + 1][doc_to_update + 1]
    IN  IF polarity = "+" THEN Times(current_score, sim_value)
        ELSE IF polarity = "-"
        THEN Times(current_score,
                   InverseSim(similarity_matrix[selected_doc_index + 1], sim_value))
        ELSE current_score

\* the last doc_to_update (0-based) of the loop: range(selected + 1, len - 1)
LoopLast(ranked_list) == Len(ranked_list) - 2

\* the for loop of rerank from doc_to_update on: the heap it leaves, and whether
\* indexing the matrix raised (torch IndexError) before the loop ended
RECURSIVE RescoreLoop(_, _, _, _, _, _)
RescoreLoop(hp, ranked_list, polarity, similarity_matrix, selected_doc_index, doc_to_update) ==
    IF doc_to_update > LoopLast(ranked_list) THEN [heap |-> hp, raised |-> FALSE]
    ELSE IF selected_doc_index + 1 > Len(similarity_matrix)
            \/ doc_to_update + 1 > Len(similarity_matrix)
         THEN [heap |-> hp, raised |-> TRUE]
    ELSE LET id == ranked_list[doc_to_update + 1]
             new_score == NewScore(hp[id].score, polarity, similarity_matrix,
                                   selected_doc_index, doc_to_update)
         IN  RescoreLoop([hp EXCEPT ![id].score = new_score], ranked_list, polarity,
                         similarity_matrix, selected_doc_index, doc_to_update + 1)

\* mutant: a docno that is not found selects the first entry
SelectedDocRankFirst(hp, ranked_list, docno) ==
    LET hits == {i \in DOMAIN ranked_list : hp[ranked_list[i]].docno = docno}
    IN  IF ranked_list = <<>> THEN 0
        ELSE IF hits = {} THEN hp[ranked_list[1]].rank
        ELSE hp[ranked_list[CHOOSE i \in hits : \A j \in hits : i <= j]].rank

\* the rank (field) of the first entry whose docno is the feedback's, 0 for None
SelectedDocRank(hp, ranked_list, docno) ==
    LET hits == {i \in DOMAIN ranked_list : hp[ranked_list[i]].docno = docno}
    IN  IF hits = {} THEN 0
        ELSE hp[ranked_list[CHOOSE i \in hits : \A j \in hits : i <= j]].rank

Ranker_rerank(hp, ranked_list, feedback, similarity_matrix) ==
    LET selected_doc_rank == SelectedDocRank(hp, ranked_list, feedback.docno)
        selected_doc_index == selected_doc_rank - 1
        loop == RescoreLoop(hp, ranked_list, feedback.feedback, similarity_matrix,
                            selected_doc_index, selected_doc_index + 1)
        reranked_part == SortedDesc(PyTail(ranked_list, selected_doc_index + 1),
                                    [id \in DOMAIN loop.heap |-> loop.heap[id].score])
        new_list == PyHead(ranked_list, selected_doc_index + 1) \o reranked_part
        ranked_heap == [id \in DOMAIN loop.heap |->
                          IF \E p \in DOMAIN new_list :
                                p >= selected_doc_index + 2 /\ new_list[p] = id
                          THEN [loop.heap[id] EXCEPT
                                  !.rank = CHOOSE p \in DOMAIN new_list : new_list[p] = id]
                          ELSE loop.heap[id]]
    IN  IF selected_doc_rank = 0
        THEN [heap |-> hp, result |-> ranked_list, raised |-> FALSE]
        ELSE IF loop.raised
        THEN [heap |-> loop.heap, result |-> <<>>, raised |-> TRUE]
        ELSE [heap |-> ranked_heap, result |-> new_list, raised |-> FALSE]

\* the entries a list of object ids denotes
View(hp, ids) == [i \in DOMAIN ids |-> hp[ids[i]]]

----------------------------------------------------------------------------
(* Inputs *)

\* Pipeline.documents, in corpus order
Corpus == <<"A", "B", "C">>

CorpusDocnos == Range(Corpus)

\* raw retrieval scores: 0.5 and 0.9
RetrievalScores == {(5 * ScoreOne) \div 10, (9 * ScoreOne) \div 10}

\* sequences over S of length n
SeqsOfLen(S, n) == [1..n -> S]

Injective(s) == \A i, j \in DOMAIN s : i # j => s[i] # s[j]

\* candidate lists (docno, score) with pairwise distinct docnos, in any order
CandidateLists(maxlen) ==
    UNION {{[i \in 1..n |-> <<d[i], sc[i]>>] :
                d \in {x \in SeqsOfLen(CorpusDocnos, n) : Injective(x)},
                sc \in SeqsOfLen(RetrievalScores, n)} : n \in 0..maxlen}

\* the same with the docnos in corpus order (a renaming of any list of distinct docnos)
CanonicalLists(maxlen) ==
    UNION {{[i \in 1..n |-> <<Corpus[i], sc[i]>>] :
                sc \in SeqsOfLen(RetrievalScores, n)} : n \in 0..Min(maxlen, Len(Corpus))}

\* order: the object ids of the list a rerank returns, in list order
NoCall == [fn |-> "none", args |-> <<>>, done |-> FALSE, raised |-> FALSE,
           result |-> <<>>, after |-> <<>>, order |-> <<>>]

NoOp == [op |-> "none", arg |-> "", value |-> 0, outcome |-> "", history_len |-> 0,
         ranked_list |-> <<>>, similarity_matrix |-> <<>>, selected_doc_index |-> 0 - 1]

NoToggles == [d \in {} |-> 0]

\* the session part of the state right after GUI.__init__
SessionInit ==
    /\ search_history = <<>>
    /\ heap = <<>>
    /\ expansion = FALSE
    /\ original_top = <<>>
    /\ translated_top = <<>>
    /\ expanded_top = <<>>
    /\ toggles = NoToggles
    /\ nfeedback = 0
    /\ last = NoOp

----------------------------------------------------------------------------
(* Ranker.rank applied to drawn candidate lists *)

RankInit ==
    /\ SessionInit
    /\ \E o \in CanonicalLists(MaxListLen), t, e \in CandidateLists(MaxListLen),
          topn \in 1..MaxTopn, nmax \in 1..MaxNmax :
            call = [NoCall EXCEPT !.fn = "rank",
                       !.args = [original |-> o, translated |-> t, expanded |-> e,
                                 topn |-> topn, nmax |-> nmax]]

\* no statement of Ranker.rank raises on integer quotas: the call always returns
RankCall ==
    /\ call.fn = "rank" /\ ~call.done
    /\ call' = [call EXCEPT !.done = TRUE, !.raised = FALSE,
                   !.result = Ranker_rank(call.args.original, call.args.translated,
                                          call.args.expanded, call.args.topn,
                                          call.args.nmax),
                   !.after = RankerDocs(call.args.original, call.args.translated,
                                        call.args.expanded)]
    /\ UNCHANGED session_vars

RankNext == RankCall

SpecRank == RankInit /\ [][RankNext]_vars

----------------------------------------------------------------------------
(* Ranker.rank called with quotas of any sign *)

QuotaInit ==
    /\ SessionInit
    /\ \E o \in CanonicalLists(MaxListLen), t, e \in CandidateLists(1),
          topn \in (0 - MaxTopn)..MaxTopn, nmax \in (0 - MaxNmax)..MaxNmax :
            call = [NoCall EXCEPT !.fn = "rank",
                       !.args = [original |-> o, translated |-> t, expanded |-> e,
                                 topn |-> topn, nmax |-> nmax]]

SpecQuota == QuotaInit /\ [][RankNext]_vars

----------------------------------------------------------------------------
(* Ranker.rank on the lists around the fusion scenario *)

\* raw retrieval scores: 0.5, 0.8 and 0.9
ScenarioScores == RetrievalScores \cup {(8 * ScoreOne) \div 10}

ScenarioLists(maxlen) ==
    UNION {{[i \in 1..n |-> <<d[i], sc[i]>>] :
                d \in {x \in SeqsOfLen(CorpusDocnos, n) : Injective(x)},
                sc \in SeqsOfLen(ScenarioScores, n)} : n \in 0..maxlen}

ScenarioInit ==
    /\ SessionInit
    /\ \E o \in ScenarioLists(MaxListLen), t \in ScenarioLists(1),
          topn \in 1..MaxTopn, nmax \in 1..MaxNmax :
            call = [NoCall EXCEPT !.fn = "rank",
                       !.args = [original |-> o, translated |-> t, expanded |-> <<>>,
                                 topn |-> topn, nmax |-> nmax]]

SpecScenario == ScenarioInit /\ [][RankNext]_vars

----------------------------------------------------------------------------
(* Ranker._normalize on one list of raw scores.  The source fixes the bounds *)
(* to 0 and 1; the other bounds drawn here put the formula of the loop under *)
(* the bounds a statement about "any bounds" ranges over.                    *)

\* raw scores: -0.5, 0.5, 1.0 and 1.5
RawScores == {0 - (5 * ScoreOne) \div 10, (5 * ScoreOne) \div 10, ScoreOne,
              (15 * ScoreOne) \div 10}

RawLists(maxlen) ==
    UNION {{[i \in 1..n |-> <<Corpus[i], sc[i]>>] :
                sc \in SeqsOfLen(RawScores, n)} : n \in 0..Min(maxlen, Len(Corpus))}

\* pairs (min, max): the bounds of the source first
NormalizeBounds ==
    {<<min_score, max_score>>, <<min_score, max_score + 1>>,
     <<min_score + 1, max_score + 2>>, <<max_score, max_score>>}

NormalizeInit ==
    /\ SessionInit
    /\ \E l \in RawLists(MaxListLen), b \in NormalizeBounds :
            call = [NoCall EXCEPT !.fn = "normalize",
                       !.args = [doc_list |-> ToDocs(l, "original"),
                                 min_score |-> b[1], max_score |-> b[2]]]

\* _normalize applied once (result) and once more to its own output (after)
NormalizeCall ==
    /\ call.fn = "normalize" /\ ~call.done
    /\ LET once == NormalizeWith(call.args.doc_list, call.args.min_score,
                                 call.args.max_score)
       IN  call' = [call EXCEPT !.done = TRUE, !.result = once,
                       !.after = NormalizeWith(once, call.args.min_score,
                                               call.args.max_score)]
    /\ UNCHANGED session_vars

NormalizeNext == NormalizeCall

SpecNormalize == NormalizeInit /\ [][NormalizeNext]_vars

----------------------------------------------------------------------------
(* Ranker.rerank applied to a drawn ranked list, feedback and matrix *)

\* scores of ranked entries: 0.4, 0.6 and 1.0
RankedScores == {(4 * ScoreOne) \div 10, (6 * ScoreOne) \div 10, ScoreOne}

\* similarity values off the diagonal: 0.5 and 0.9
SimValues == {5, 9}

Polarities == {"+", "-"}

\* a docno that no ranked list holds
AbsentDocno == "Z"

DocnoAt(i) == Corpus[((i - 1) % Len(Corpus)) + 1]

\* ranked lists as fusion and rerank return them: rank is the position; a docno
\* may occur twice (the secondary lists are not deduplicated against each other)
RankedLists(maxlen) ==
    UNION {{[i \in 1..n |-> [rank |-> i, docno |-> d[i], score |-> sc[i],
                             from_query |-> "original"]] :
                d \in {x \in SeqsOfLen(CorpusDocnos, n) :
                          \A i \in 1..n : x[i] \in {DocnoAt(i), Corpus[1]}},
                sc \in SeqsOfLen(RankedScores, n)} : n \in 0..maxlen}

\* symmetric matrices with unit diagonal; row i holds r[j] at every column j > i
SimMatrices(n) ==
    {[i \in 1..n |-> [j \in 1..n |->
            IF i = j THEN SimOne ELSE IF i < j THEN r[j] ELSE r[i]]] :
        r \in SeqsOfLen(SimValues, n)}

RerankInit ==
    /\ SessionInit
    /\ \E rl \in RankedLists(MaxRanked),
          d \in CorpusDocnos \cup {AbsentDocno}, pol \in Polarities :
         \E n \in {m \in {Len(rl) - 1, Len(rl), Len(rl) + 1} : m >= 0} :
          \E sm \in SimMatrices(n) :
            call = [NoCall EXCEPT !.fn = "rerank",
                       !.args = [ranked_list |-> rl,
                                 feedback |-> [docno |-> d, feedback |-> pol],
                                 similarity_matrix |-> sm]]

RerankCall ==
    /\ call.fn = "rerank" /\ ~call.done
    /\ LET hp == call.args.ranked_list
           r == Ranker_rerank(hp, [i \in DOMAIN hp |-> i], call.args.feedback,
                              call.args.similarity_matrix)
       IN  call' = [call EXCEPT !.done = TRUE, !.raised = r.raised,
                       !.result = View(r.heap, r.result), !.after = r.heap,
                       !.order = r.result]
    /\ UNCHANGED session_vars

RerankNext == RerankCall

SpecRerank == RerankInit /\ [][RerankNext]_vars

----------------------------------------------------------------------------
(* Ranker.rerank on lists one entry longer, over two scores, with a matrix as *)
(* long as the list: the suffix holds entries that tie after the rescoring   *)

\* scores of ranked entries: 0.4 and 0.6
SuffixScores == {(4 * ScoreOne) \div 10, (6 * ScoreOne) \div 10}

SuffixLists(maxlen) ==
    UNION {{[i \in 1..n |-> [rank |-> i, docno |-> DocnoAt(i), score |-> sc[i],
                             from_query |-> "original"]] :
                sc \in SeqsOfLen(SuffixScores, n)} : n \in 0..maxlen}

SuffixInit ==
    /\ SessionInit
    /\ \E rl \in SuffixLists(MaxRanked + 1), d \in CorpusDocnos, pol \in Polarities :
         \E sm \in SimMatrices(Len(rl)) :
            call = [NoCall EXCEPT !.fn = "rerank",
                       !.args = [ranked_list |-> rl,
                                 feedback |-> [docno |-> d, feedback |-> pol],
                                 similarity_matrix |-> sm]]

SpecSuffix == SuffixInit /\ [][RerankNext]_vars

----------------------------------------------------------------------------
(* Pipeline *)

\* tools.utils.get_topn: the n best rows of a retrieval result, best first
GetTopn(results, n) ==
    PyHead(SortedDesc(results, [t \in Range(results) |-> t[2]]), Min(n, Len(results)))

\* mutant: the Ranker is called with the quota topn = 1
Pipeline_rankTightQuota(o_top, t_top, e_top) ==
    Ranker_rank(o_top, t_top, e_top, 1, 3)

\* Pipeline.rank
Pipeline_rank(o_top, t_top, e_top) ==
    LET topn == IF e_top # <<>> THEN RetrievalTopn * 3 ELSE RetrievalTopn * 2
    IN  Ranker_rank(o_top, t_top, e_top, topn, topn * 3)

\* cosine similarity of the embeddings of two corpus documents, in tenths
DocSim(d1, d2) ==
    IF d1 = d2 THEN SimOne
    ELSE IF {d1, d2} = {"A", "B"} THEN 5
    ELSE IF {d1, d2} = {"A", "C"} THEN 9
    ELSE 7

\* ClinicalBERT.__call__: the documents of the corpus whose docno is in ids, in
\* corpus order, and the matrix of their pairwise similarities
EmbeddedDocnos(ids) == SelectSeq(Corpus, LAMBDA d : d \in ids)

ClinicalBERT(ids) ==
    LET ds == EmbeddedDocnos(ids)
    IN  [i \in DOMAIN ds |-> [j \in DOMAIN ds |-> DocSim(ds[i], ds[j])]]

TopDocnos(top) == {top[i][1] : i \in DOMAIN top}

\* Pipeline._evaluate: the ids it hands to ClinicalBERT
EvaluateIds(ids, o_top, t_top, e_top) ==
    IF ids = {} THEN TopDocnos(o_top) \cup TopDocnos(t_top) \cup TopDocnos(e_top)
    ELSE ids

\* Pipeline.rerank: ids is a set of docnos, so the matrix has one row for each
\* distinct docno of ranked_list.  embed_ok: the embedding model answered.
Pipeline_rerank(hp, ranked_list, feedback, o_top, t_top, e_top, embed_ok) ==
    LET ids == EvaluateIds({hp[ranked_list[i]].docno : i \in DOMAIN ranked_list},
                           o_top, t_top, e_top)
        similarity_matrix == ClinicalBERT(ids)
    IN  IF ~embed_ok \/ EmbeddedDocnos(ids) = <<>>
        THEN [heap |-> hp, result |-> <<>>, raised |-> TRUE, similarity_matrix |-> <<>>]
        ELSE [similarity_matrix |-> similarity_matrix] @@
             Ranker_rerank(hp, ranked_list, feedback, similarity_matrix)

----------------------------------------------------------------------------
(* The retrieval collaborators: what the index returns for each query of the *)
(* session, for the original, the translated and the expanded query.         *)

Tenths(k) == (k * ScoreOne) \div 10

Queries == {"q1", "q2", "q3"}

\* a query that is empty after strip()
BlankQuery == " "

Retrieve(query, variant) ==
    CASE query = "q1" /\ variant = "original" ->
            <<(<<"A", Tenths(5)>>), (<<"C", Tenths(9)>>), (<<"B", Tenths(1)>>)>>
      [] query = "q1" /\ variant = "translated" -> <<(<<"B", Tenths(9)>>)>>
      [] query = "q1" /\ variant = "expanded" ->
            <<(<<"B", Tenths(9)>>), (<<"A", Tenths(5)>>)>>
      [] query = "q2" /\ variant = "original" -> <<(<<"A", Tenths(9)>>)>>
      [] query = "q2" /\ variant = "translated" ->
            <<(<<"B", Tenths(9)>>), (<<"C", Tenths(5)>>)>>
      [] query = "q2" /\ variant = "expanded" ->
            <<(<<"C", Tenths(9)>>), (<<"B", Tenths(5)>>)>>
      [] query = "q3" /\ variant = "original" -> <<(<<"B", Tenths(5)>>)>>
      [] OTHER -> <<>>

----------------------------------------------------------------------------
(* GUI *)

\* the feedback of a state that carries none: {}
NoFeedback == [docno |-> "", feedback |-> ""]

\* mutant: no state is taken to carry feedback on the docno
HasFeedbackOnNever(state, docno) == FALSE

HasFeedbackOn(state, docno) ==
    state.feedback # NoFeedback /\ state.feedback.docno = docno

\* value of the toggle: None, 'Useless', 'Relevant'
Cleared == 0
Useless == 1
Relevant == 2

\* GUI.display: one card for each latest result found in the corpus; its toggle
\* shows the feedback of the last state that carries feedback on the docno
ToggleValue(history, docno) ==
    LET hits == {i \in DOMAIN history : HasFeedbackOn(history[i], docno)}
    IN  IF hits = {} THEN Cleared
        ELSE LET i == CHOOSE k \in hits : \A j \in hits : j <= k
             IN  IF history[i].feedback.feedback = "-" THEN Useless
                 ELSE IF history[i].feedback.feedback = "+" THEN Relevant
                 ELSE Cleared

Display(history, hp) ==
    LET latest_results == IF history = <<>> THEN <<>>
                          ELSE history[Len(history)].results
        shown == {hp[latest_results[i]].docno : i \in DOMAIN latest_results}
                    \cap CorpusDocnos
    IN  [d \in shown |-> ToggleValue(history, d)]

\* GUI._feedback, lines 229-236: the history cut before the first state that
\* carries feedback on docno
TruncateIndex(history, docno) ==
    LET hits == {i \in DOMAIN history : HasFeedbackOn(history[i], docno)}
    IN  IF hits = {} THEN 0 ELSE CHOOSE i \in hits : \A j \in hits : i <= j

\* mutant: a revision cuts the whole history
TruncatedToEmpty(history, docno) ==
    IF TruncateIndex(history, docno) = 0 THEN history ELSE <<>>

\* mutant: the cut keeps the first state that carries feedback on docno
TruncatedAfter(history, docno) ==
    IF TruncateIndex(history, docno) = 0 THEN history
    ELSE SubSeq(history, 1, TruncateIndex(history, docno))

Truncated(history, docno) ==
    IF TruncateIndex(history, docno) = 0 THEN history
    ELSE SubSeq(history, 1, TruncateIndex(history, docno) - 1)

\* the record kept of an operation: what it was, how it ended, the length of the
\* history it found and, for a rerank, the list and the matrix handed to it and
\* the selected_doc_index the rerank works with
Op(op, arg, value, outcome) ==
    [op |-> op, arg |-> arg, value |-> value, outcome |-> outcome,
     history_len |-> Len(search_history),
     ranked_list |-> <<>>, similarity_matrix |-> <<>>, selected_doc_index |-> 0 - 1]

\* GUI.display(query) with a query that is blank: the cards are cleared
SearchBlank ==
    /\ toggles' = NoToggles
    /\ last' = Op("search", BlankQuery, 0, "blank")
    /\ UNCHANGED <<search_history, heap, expansion, original_top, translated_top,
                   expanded_top, nfeedback, call>>

\* mutant: the state of a fresh search is stored with a feedback
RankStateWithFeedback(query, results) ==
    [query |-> query, results |-> results,
     feedback |-> [docno |-> Corpus[1], feedback |-> "+"]]

\* the state GUI._rank appends: the query, the fused list and no feedback
RankState(query, results) ==
    [query |-> query, results |-> results, feedback |-> NoFeedback]

\* GUI.display(query) -> GUI.search(query, reset = True) -> GUI._rank(query).
\* failed_at: the retrieval step that raises ("none": all of them answer).
Search(query, failed_at) ==
    /\ failed_at = "expanded" => expansion
    /\ original_top' = IF failed_at = "original" THEN original_top
                       ELSE GetTopn(Retrieve(query, "original"), RetrievalTopn)
    /\ translated_top' = IF failed_at \in {"original", "translated"} THEN translated_top
                         ELSE GetTopn(Retrieve(query, "translated"), RetrievalTopn)
    /\ expanded_top' = IF failed_at # "none" \/ ~expansion THEN expanded_top
                       ELSE GetTopn(Retrieve(query, "expanded"), RetrievalTopn)
    /\ nfeedback' = 0
    /\ IF failed_at = "none"
       THEN LET ranked_list == Pipeline_rank(original_top', translated_top', expanded_top')
            IN  /\ heap' = ranked_list
                /\ search_history' =
                        <<RankState(query, [i \in DOMAIN ranked_list |-> i])>>
                /\ toggles' = Display(search_history', heap')
                /\ last' = Op("search", query, 0, "ok")
       ELSE /\ heap' = <<>>
            /\ search_history' = <<>>
            /\ toggles' = toggles
            /\ last' = Op("search", query, 0, "failed")
    /\ UNCHANGED <<expansion, call>>

\* the 'Expansion' switch
ChangeExpansion ==
    /\ expansion' = ~expansion
    /\ last' = Op("expansion", "", 0, "ok")
    /\ UNCHANGED <<search_history, heap, original_top, translated_top, expanded_top,
                   toggles, nfeedback, call>>

\* GUI.feedback with an empty history: nothing but the toggle changes
FeedbackIdle(docno, feedback_value) ==
    /\ search_history = <<>>
    /\ docno \in DOMAIN toggles /\ toggles[docno] # feedback_value
    /\ toggles' = [toggles EXCEPT ![docno] = feedback_value]
    /\ last' = Op("feedback", docno, feedback_value, "idle")
    /\ UNCHANGED <<search_history, heap, expansion, original_top, translated_top,
                   expanded_top, nfeedback, call>>

\* GUI.feedback -> GUI._feedback(record, None): the toggle was cleared
FeedbackClear(docno) ==
    /\ search_history # <<>> /\ nfeedback < MaxFeedback
    /\ docno \in DOMAIN toggles /\ toggles[docno] # Cleared
    /\ search_history' = Truncated(search_history, docno)
    /\ toggles' = Display(search_history', heap)
    /\ nfeedback' = nfeedback + 1
    /\ last' = Op("feedback", docno, Cleared, "ok")
    /\ UNCHANGED <<heap, expansion, original_top, translated_top, expanded_top, call>>

\* GUI.feedback -> GUI._feedback(record, 1 or 2) -> GUI._rerank -> Pipeline.rerank
Feedback(docno, feedback_value, embed_ok) ==
    /\ search_history # <<>> /\ nfeedback < MaxFeedback
    /\ feedback_value \in {Useless, Relevant}
    /\ docno \in DOMAIN toggles /\ toggles[docno] # feedback_value
    /\ LET feedback == [docno |-> docno,
                        feedback |-> IF feedback_value = Useless THEN "-" ELSE "+"]
           truncated == Truncated(search_history, docno)
           last_state == truncated[Len(truncated)]
           r == Pipeline_rerank(heap, last_state.results, feedback, original_top,
                                translated_top, expanded_top, embed_ok)
       IN  /\ heap' = r.heap
           /\ search_history' =
                 IF r.raised THEN truncated
                 ELSE Append(truncated, [query |-> last_state.query,
                                         results |-> r.result, feedback |-> feedback])
           /\ toggles' = IF r.raised THEN [toggles EXCEPT ![docno] = feedback_value]
                         ELSE Display(search_history', heap')
           /\ last' = [Op("feedback", docno, feedback_value,
                          IF ~embed_ok THEN "failed"
                          ELSE IF r.raised THEN "raised" ELSE "ok")
                       EXCEPT !.ranked_list = View(heap, last_state.results),
                              !.similarity_matrix = r.similarity_matrix,
                              !.selected_doc_index =
                                    SelectedDocRank(heap, last_state.results, docno) - 1]
    /\ nfeedback' = nfeedback + 1
    /\ UNCHANGED <<expansion, original_top, translated_top, expanded_top, call>>

Init == SessionInit /\ call = NoCall

Next ==
    \/ SearchBlank
    \/ \E q \in Queries, f \in {"none", "original", "translated", "expanded"} :
            Search(q, f)
    \/ ChangeExpansion
    \/ \E d \in CorpusDocnos, v \in {Cleared, Useless, Relevant} : FeedbackIdle(d, v)
    \/ \E d \in CorpusDocnos : FeedbackClear(d)
    \/ \E d \in CorpusDocnos, v \in {Useless, Relevant}, ok \in BOOLEAN :
            Feedback(d, v, ok)

Spec == Init /\ [][Next]_vars

----------------------------------------------------------------------------
(* Properties *)

RankDone == call.fn = "rank" /\ call.done

RerankDone == call.fn = "rerank" /\ call.done

\* the entries of a candidate list whose docno the original list does not hold
NotInOriginal(original, secondary) ==
    SelectSeq(secondary, LAMBDA t : \A i \in DOMAIN original : original[i][1] # t[1])

\* slice holds n best candidates of source, best first, tagged with its source
IsTopSlice(slice, source, n, tag) ==
    /\ Len(slice) = Min(n, Len(source))
    /\ \A i, j \in DOMAIN slice : i < j =>
            slice[i].score >= slice[j].score /\ slice[i].docno # slice[j].docno
    /\ \A i \in DOMAIN slice :
            /\ slice[i].from_query = tag
            /\ \E k \in DOMAIN source :
                    source[k][1] = slice[i].docno /\ source[k][2] = slice[i].score
    /\ \A k \in DOMAIN source :
            (\A i \in DOMAIN slice : slice[i].docno # source[k][1]) =>
                \A i \in DOMAIN slice : slice[i].score >= source[k][2]

\* C1: after a rerank every entry at a position up to that of the fed-back
\* document (inclusive) has the docno, score and rank it had before the call,
\* for every list the session passes in.
C1_PrefixStable ==
    (last.op = "feedback" /\ last.outcome = "ok" /\ last.value # Cleared) =>
        LET before == last.ranked_list
            after == View(heap, search_history[Len(search_history)].results)
            at == {i \in DOMAIN before : before[i].docno = last.arg}
        IN  \A i \in DOMAIN before :
                (\E p \in at : i <= p /\ \A q \in at : p <= q) => after[i] = before[i]

\* C2: with topn >= 1 and nmax not cutting the head, the output of Ranker.rank
\* starts with the topn best original candidates, best first, then the topn best
\* deduplicated translated candidates, then the topn best deduplicated expanded
\* candidates, whatever the scores of the other sources are.
C2_FusionQuota ==
    RankDone =>
        LET a == call.args
            t == NotInOriginal(a.original, a.translated)
            e == NotInOriginal(a.original, a.expanded)
            ko == Min(a.topn, Len(a.original))
            kt == Min(a.topn, Len(t))
            ke == Min(a.topn, Len(e))
        IN  (a.topn >= 1 /\ a.nmax >= ko + kt + ke) =>
                /\ Len(call.result) >= ko + kt + ke
                /\ IsTopSlice(SubSeq(call.result, 1, ko), a.original, a.topn, "original")
                /\ IsTopSlice(SubSeq(call.result, ko + 1, ko + kt), t, a.topn,
                              "translated")
                /\ IsTopSlice(SubSeq(call.result, ko + kt + 1, ko + kt + ke), e, a.topn,
                              "expanded")

\* a fusion with topn = 1 in which the translated list loses one of its two
\* candidates to deduplication and the expanded list keeps two, the better one last
C2_Witness ==
    /\ RankDone
    /\ call.args.topn = 1 /\ call.args.nmax >= 3
    /\ Len(call.args.original) = 1
    /\ Len(call.args.translated) = 2
    /\ Len(NotInOriginal(call.args.original, call.args.expanded)) = 2
    /\ Len(NotInOriginal(call.args.original, call.args.translated)) = 1
    /\ call.args.expanded[1][2] < call.args.expanded[2][2]
    /\ call.result[3].docno = call.args.expanded[2][1]

\* C3: Ranker.rank returns min(nmax, len(original) + len(translated) +
\* len(expanded)) entries, the secondary lists counted after deduplication.
C3_FusionCardinality ==
    RankDone =>
        LET a == call.args
        IN  Len(call.result) =
                Min(a.nmax, Len(a.original) + Len(NotInOriginal(a.original, a.translated))
                                + Len(NotInOriginal(a.original, a.expanded)))

\* the states carrying feedback on docno, and the history cut before the first
FeedbackStates(history, docno) ==
    {i \in DOMAIN history :
        history[i].feedback # NoFeedback /\ history[i].feedback.docno = docno}

KeptLen(history, docno) ==
    IF FeedbackStates(history, docno) = {} THEN Len(history)
    ELSE (CHOOSE i \in FeedbackStates(history, docno) :
            \A j \in FeedbackStates(history, docno) : i <= j) - 1

\* the step is a feedback event the handler treated with the embedding model
\* answering (it was cleared, or reranked)
FeedbackHandled == last'.op = "feedback" /\ last'.outcome \in {"ok", "raised"}

\* C4: a feedback event on docno d cuts the history before the first state that
\* carries feedback on d (state i and the later ones are dropped) before anything
\* else; a positive or negative value then appends exactly one state, reranked
\* from the last state kept; a cleared value appends nothing; when no state
\* carries feedback on d no state is dropped.  (The appended state is claimed
\* for the events whose embedding call answers.)
C4_RevisionTruncates ==
    [][(last'.op = "feedback" /\ last'.outcome # "idle") =>
        LET d == last'.arg
            n == KeptLen(search_history, d)
        IN  /\ Len(search_history') \in {n, n + 1}
            /\ SubSeq(search_history', 1, n) = SubSeq(search_history, 1, n)
            /\ last'.value = Cleared => Len(search_history') = n
            /\ (/\ last'.value # Cleared
                /\ last'.outcome # "failed"
                /\ FeedbackStates(search_history, d) # {}) =>
                    /\ Len(search_history') = n + 1
                    /\ search_history'[n + 1].feedback =
                            [docno |-> d,
                             feedback |-> IF last'.value = Useless THEN "-" ELSE "+"]
                    /\ search_history'[n + 1].query = search_history[n].query
                    /\ Len(search_history'[n + 1].results)
                            = Len(search_history[n].results)
                    /\ Range(search_history'[n + 1].results)
                            = Range(search_history[n].results)
    ]_vars

\* a revision that dropped two states or more and appended the reranked one
C4_Witness ==
    /\ last.op = "feedback" /\ last.outcome = "ok" /\ last.value = Relevant
    /\ last.history_len >= 3
    /\ Len(search_history) = 2
    /\ search_history[2].feedback = [docno |-> last.arg, feedback |-> "+"]

\* C5: the states that stay in the history over a feedback event keep the docno
\* order, scores and ranks they had.
C5_StatesImmutable ==
    [][FeedbackHandled =>
        \A i \in 1..Min(KeptLen(search_history, last'.arg), Len(search_history')) :
            View(heap', search_history'[i].results)
                = View(heap, search_history[i].results)
    ]_vars

\* C6: in every state of the history the rank of each entry is its 1-based
\* position in the results of that state.
C6_RankIsPosition ==
    \A i \in DOMAIN search_history :
        \A p \in DOMAIN search_history[i].results :
            heap[search_history[i].results[p]].rank = p

\* C7: a search whose retrieval, translation or expansion fails, and a feedback
\* event whose embedding call fails, leave the history as it was.
C7_FailureKeepsHistory ==
    [][(last'.op \in {"search", "feedback"} /\ last'.outcome = "failed") =>
        /\ search_history' = search_history
        /\ \A i \in DOMAIN search_history :
                View(heap', search_history'[i].results)
                    = View(heap, search_history[i].results)
    ]_vars

\* C8: the matrix handed to Ranker.rerank has as many rows as the ranked list
\* has entries, and its entry (i, j) is the similarity of the documents at the
\* positions i and j of that list.
C8_MatrixAligned ==
    (last.op = "feedback" /\ last.outcome \in {"ok", "raised"} /\ last.value # Cleared) =>
        /\ Len(last.similarity_matrix) = Len(last.ranked_list)
        /\ \A i, j \in DOMAIN last.ranked_list :
                last.similarity_matrix[i][j]
                    = DocSim(last.ranked_list[i].docno, last.ranked_list[j].docno)

\* C9: when the dimension of the similarity matrix differs from the length of
\* the ranked list, Ranker.rerank raises, returns no list and has changed no
\* score and no rank.
C9_SizeMismatchAborts ==
    (/\ RerankDone
     /\ Len(call.args.similarity_matrix) # Len(call.args.ranked_list)
     /\ \E i \in DOMAIN call.args.ranked_list :
            call.args.ranked_list[i].docno = call.args.feedback.docno) =>
        /\ call.raised
        /\ call.result = <<>>
        /\ call.after = call.args.ranked_list

\* C10: when no entry has the docno of the feedback, Ranker.rerank raises
\* nothing and returns the list with the same order, scores and ranks, for
\* either polarity and any matrix.
C10_NoOpOnUnknown ==
    (/\ RerankDone
     /\ \A i \in DOMAIN call.args.ranked_list :
            call.args.ranked_list[i].docno # call.args.feedback.docno) =>
        /\ ~call.raised
        /\ call.result = call.args.ranked_list
        /\ call.after = call.args.ranked_list

\* a rerank of three entries for a docno none of them has, with a matrix whose
\* values would change the scores
C10_Witness ==
    /\ RerankDone
    /\ Len(call.args.ranked_list) = 3
    /\ call.args.feedback.docno = AbsentDocno
    /\ Len(call.args.similarity_matrix) = 3
    /\ call.args.similarity_matrix[1][2] # SimOne
    /\ call.result = call.args.ranked_list

\* C11: after a successful search the history is exactly one state, holding the
\* new query, the list fused by this search and no feedback, whatever the
\* history held before.
C11_SearchResets ==
    (last.op = "search" /\ last.outcome = "ok") =>
        /\ Len(search_history) = 1
        /\ search_history[1].query = last.arg
        /\ search_history[1].feedback = [docno |-> "", feedback |-> ""]
        /\ View(heap, search_history[1].results)
                = Pipeline_rank(original_top, translated_top, expanded_top)
        /\ original_top = GetTopn(Retrieve(last.arg, "original"), RetrievalTopn)
        /\ translated_top = GetTopn(Retrieve(last.arg, "translated"), RetrievalTopn)

\* a successful search that found a history of three states
C11_Witness ==
    /\ last.op = "search" /\ last.outcome = "ok"
    /\ last.history_len = 3
    /\ Len(search_history) = 1 /\ search_history[1].results # <<>>

\* C12: Ranker.rank with topn <= 0 or nmax <= 0 is rejected with an error and
\* returns no list; with both positive (nmax < topn included) it is accepted.
C12_InvalidQuotasRejected ==
    RankDone =>
        IF call.args.topn <= 0 \/ call.args.nmax <= 0
        THEN call.raised /\ call.result = <<>>
        ELSE ~call.raised

\* C13: after _remove_doubles the translated list is the input translated list
\* without the entries whose docno the original list holds, in the same order,
\* and likewise the expanded list; an entry is not dropped for being in the
\* other secondary list.
C13_DedupAgainstOriginal ==
    RankDone =>
        LET a == call.args
            Pairs(docs) == [i \in DOMAIN docs |-> <<docs[i].docno, docs[i].score>>]
            origs == {a.original[i][1] : i \in DOMAIN a.original}
        IN  /\ Pairs(call.after.translated_docs) = NotInOriginal(a.original, a.translated)
            /\ Pairs(call.after.expanded_docs) = NotInOriginal(a.original, a.expanded)
            /\ \A i \in DOMAIN call.after.translated_docs :
                    call.after.translated_docs[i].docno \notin origs
            /\ \A i \in DOMAIN call.after.expanded_docs :
                    call.after.expanded_docs[i].docno \notin origs

\* the secondary lists share a docno that the original list does not hold, and
\* the translated list loses its second entry to the original list
C13_Witness ==
    /\ RankDone
    /\ Len(call.args.original) = 1 /\ Len(call.args.translated) = 2
    /\ call.args.translated[2][1] = call.args.original[1][1]
    /\ Len(call.after.translated_docs) = 1 /\ Len(call.after.expanded_docs) = 2
    /\ \E i \in DOMAIN call.after.expanded_docs :
            call.after.expanded_docs[i].docno = call.after.translated_docs[1].docno

\* C14: the rank fields of the output of Ranker.rank read 1, 2, ..., len(output)
\* in list order, whatever the scores are.
C14_FusionDenseRanks ==
    RankDone => \A i \in DOMAIN call.result : call.result[i].rank = i

\* an output of four entries whose scores are not in descending order
C14_Witness ==
    /\ RankDone /\ Len(call.result) = 4
    /\ \E i \in 1..3 : call.result[i].score < call.result[i + 1].score

\* the call of scenario A
ScenarioA ==
    /\ call.fn = "rank"
    /\ call.args = [original |-> <<<<"A", (9 * ScoreOne) \div 10>>,
                                   <<"B", (5 * ScoreOne) \div 10>>>>,
                    translated |-> <<<<"C", (8 * ScoreOne) \div 10>>>>,
                    expanded |-> <<>>, topn |-> 1, nmax |-> 3]

\* C15: Ranker.rank with original = [(A, 0.9), (B, 0.5)], translated = [(C, 0.8)],
\* expanded = [], topn = 1, nmax = 3 returns three entries: rank 1 A, rank 2 C,
\* rank 3 B.
C15_ScenarioFusion ==
    (ScenarioA /\ call.done) =>
        /\ Len(call.result) = 3
        /\ [i \in 1..3 |-> <<call.result[i].rank, call.result[i].docno>>]
                = <<<<1, "A">>, <<2, "C">>, <<3, "B">>>>

C15_Witness == ScenarioA /\ call.done /\ ~call.raised /\ call.result # <<>>

\* the calls of scenarios B and C: ranked = [A, B, C] with scores 1.0, 0.6, 0.4,
\* feedback on A and sim[0] = [1.0, 0.5, 0.9]
ScenarioRerank(polarity) ==
    /\ RerankDone
    /\ Len(call.args.ranked_list) = 3
    /\ [i \in 1..3 |-> <<call.args.ranked_list[i].rank, call.args.ranked_list[i].docno,
                          call.args.ranked_list[i].score>>]
            = <<<<1, "A", ScoreOne>>, <<2, "B", (6 * ScoreOne) \div 10>>,
                <<3, "C", (4 * ScoreOne) \div 10>>>>
    /\ call.args.feedback = [docno |-> "A", feedback |-> polarity]
    /\ Len(call.args.similarity_matrix) = 3
    /\ call.args.similarity_matrix[1] = <<SimOne, 5, 9>>

\* C16: in scenario B (positive feedback) the call gives B the score 0.30 and C
\* the score 0.36 and returns A, C, B with the ranks 1, 2, 3.
C16_ScenarioPositive ==
    ScenarioRerank("+") =>
        /\ ~call.raised
        /\ [i \in 1..3 |-> <<call.result[i].rank, call.result[i].docno,
                              call.result[i].score>>]
                = <<<<1, "A", ScoreOne>>, <<2, "C", (36 * ScoreOne) \div 100>>,
                    <<3, "B", (30 * ScoreOne) \div 100>>>>

\* C17: in scenario C (negative feedback) the call multiplies B by the mirror 1.0
\* (0.6) and C by the mirror 0.9 (0.36) and returns A, B, C with those scores.
C17_ScenarioNegative ==
    ScenarioRerank("-") =>
        /\ ~call.raised
        /\ [i \in 1..3 |-> <<call.result[i].docno, call.result[i].score>>]
                = <<<<"A", ScoreOne>>, <<"B", (6 * ScoreOne) \div 10>>,
                    <<"C", (36 * ScoreOne) \div 100>>>>

NormalizeDone == call.fn = "normalize" /\ call.done

DefaultBounds == call.args.min_score = 0 /\ call.args.max_score = 1

\* C18: after _normalize every score of a non-empty list lies in [0, 1],
\* whatever the raw scores are.
C18_NormalizeUnitInterval ==
    (NormalizeDone /\ DefaultBounds) =>
        \A i \in DOMAIN call.result :
            0 <= call.result[i].score /\ call.result[i].score <= ScoreOne

C20_PositiveCoversSuffix ==
    (/\ RerankDone
     /\ call.args.feedback.feedback = "+"
     /\ Len(call.args.similarity_matrix) = Len(call.args.ranked_list)
     /\ \E i \in DOMAIN call.args.ranked_list :
            call.args.ranked_list[i].docno = call.args.feedback.docno) =>
        LET rl == call.args.ranked_list
            selected == CHOOSE i \in DOMAIN rl :
                            /\ rl[i].docno = call.args.feedback.docno
                            /\ \A j \in 1..(i - 1) : rl[j].docno # rl[i].docno
        IN  /\ ~call.raised
            /\ \A i \in (selected + 1)..Len(rl) :
                    call.after[i].score
                        = (rl[i].score * call.args.similarity_matrix[selected][i])
                            \div SimOne

\* a rerank call that found the docno, with a matrix as long as the list
RerankFound ==
    /\ RerankDone
    /\ Len(call.args.similarity_matrix) = Len(call.args.ranked_list)
    /\ \E i \in DOMAIN call.args.ranked_list :
            call.args.ranked_list[i].docno = call.args.feedback.docno

\* 1-based position of the first entry that carries the feedback's docno
SelectedPosition ==
    CHOOSE i \in DOMAIN call.args.ranked_list :
        /\ call.args.ranked_list[i].docno = call.args.feedback.docno
        /\ \A j \in 1..(i - 1) :
                call.args.ranked_list[j].docno # call.args.feedback.docno

\* C21: on negative feedback every entry after the selected one gets the score
\* old_score * ordered[len(ordered) - 1 - p], ordered being the similarity row of
\* the selected document sorted descending and p the 0-based index of the first
\* occurrence of sim[selected][i] in ordered.
C21_NegativeMirror ==
    (RerankFound /\ call.args.feedback.feedback = "-") =>
        LET rl == call.args.ranked_list
            row == call.args.similarity_matrix[SelectedPosition]
            ordered == SortedDesc(row, [v \in Range(row) |-> v])
            p(i) == (CHOOSE k \in DOMAIN ordered :
                        ordered[k] = row[i] /\ \A j \in 1..(k - 1) : ordered[j] # row[i]) - 1
        IN  /\ ~call.raised
            /\ \A i \in (SelectedPosition + 1)..Len(rl) :
                    call.after[i].score
                        = (rl[i].score * ordered[Len(ordered) - p(i)]) \div SimOne

\* C22: in the list a rerank returns, the entries after the selected one are in
\* non-increasing order of their updated scores, entries with equal scores keep
\* their input order, and their ranks continue from selected + 2 without gaps;
\* the entries up to the selected one stay in place.
C22_SuffixSorted ==
    (RerankFound /\ ~call.raised) =>
        LET n == Len(call.args.ranked_list)
            suffix == (SelectedPosition + 1)..n
        IN  /\ Len(call.order) = n
            /\ \A k \in 1..SelectedPosition : call.order[k] = k
            /\ {call.order[k] : k \in suffix} = suffix
            /\ \A k, l \in suffix : k < l =>
                    /\ call.after[call.order[k]].score >= call.after[call.order[l]].score
                    /\ call.after[call.order[k]].score = call.after[call.order[l]].score
                            => call.order[k] < call.order[l]
            /\ \A k \in suffix : call.result[k].rank = k
            /\ \A k \in 1..n : call.result[k].rank = k

\* a rerank that moved an entry forward and left two entries of equal updated
\* score behind it
C22_Witness ==
    /\ RerankFound /\ ~call.raised
    /\ Len(call.order) = 4 /\ SelectedPosition = 1
    /\ call.order[2] = 4
    /\ call.result[3].score = call.result[4].score
    /\ call.order[3] < call.order[4]

\* C23: with nmax large enough to cut nothing, the part of the fused list after
\* the three top slices holds the candidates beyond position topn of the sorted
\* original, sorted deduplicated translated and sorted deduplicated expanded
\* lists, each once, by descending score, ties in concatenation order.
C23_RemainderComposition ==
    RankDone =>
        LET a == call.args
            o == SortedByScore(ToDocs(a.original, "original"))
            t == SortedByScore(ToDocs(NotInOriginal(a.original, a.translated),
                                      "translated"))
            e == SortedByScore(ToDocs(NotInOriginal(a.original, a.expanded), "expanded"))
            head == Min(a.topn, Len(o)) + Min(a.topn, Len(t)) + Min(a.topn, Len(e))
            remainder == SortedByScore(PyTail(o, a.topn) \o PyTail(t, a.topn)
                                          \o PyTail(e, a.topn))
        IN  (a.topn >= 1 /\ a.nmax >= Len(o) + Len(t) + Len(e)) =>
                [i \in 1..(Len(call.result) - head) |->
                    [docno |-> call.result[head + i].docno,
                     score |-> call.result[head + i].score,
                     from_query |-> call.result[head + i].from_query]] = remainder

\* C24: the selected index Ranker.rerank works with is the 0-based position of
\* the first entry whose docno is the feedback's, for every list the session
\* passes in.
C24_SelectedByDocno ==
    (last.op = "feedback" /\ last.value # Cleared /\ last.outcome \in {"ok", "raised"}) =>
        \E i \in DOMAIN last.ranked_list :
            /\ last.ranked_list[i].docno = last.arg
            /\ \A j \in 1..(i - 1) : last.ranked_list[j].docno # last.arg
            /\ last.selected_doc_index = i - 1

\* C25: the history is empty until a search succeeds; a feedback event that
\* finds the history empty changes nothing of the session; a feedback event that
\* finds states never leaves the history empty; state 0 carries no feedback and
\* every later state carries one feedback event.
C25_SessionStateMachine ==
    [][/\ (search_history = <<>> /\ search_history' # <<>>) =>
            (last'.op = "search" /\ last'.outcome = "ok")
       /\ (last'.op = "feedback" /\ search_history = <<>>) =>
            UNCHANGED <<search_history, heap, expansion, original_top, translated_top,
                        expanded_top>>
       /\ (last'.op = "feedback" /\ search_history # <<>>) => search_history' # <<>>
       /\ \A i \in DOMAIN search_history' :
            IF i = 1 THEN search_history'[i].feedback = [docno |-> "", feedback |-> ""]
            ELSE /\ search_history'[i].feedback.docno \in CorpusDocnos
                 /\ search_history'[i].feedback.feedback \in {"+", "-"}
    ]_vars

\* a cleared feedback that found three states and cut the history back to state 0
C25_Witness ==
    /\ last.op = "feedback" /\ last.value = Cleared /\ last.outcome = "ok"
    /\ last.history_len = 3
    /\ Len(search_history) = 1

\* C26: for every docno at most one state of the history carries feedback on it,
\* so the history is never longer than 1 + the number of distinct docnos of the
\* ranked list.
C26_OneFeedbackPerDocno ==
    /\ \A d \in CorpusDocnos :
            Cardinality({i \in DOMAIN search_history :
                            search_history[i].feedback.docno = d}) <= 1
    /\ search_history # <<>> =>
            Len(search_history) <=
                1 + Cardinality({heap[id].docno : id \in Range(search_history[1].results)})

\* a negative feedback that replaced the state of an earlier feedback on the
\* same docno, one more state having been appended in between
C26_Witness ==
    /\ last.op = "feedback" /\ last.value = Useless /\ last.outcome = "ok"
    /\ last.history_len = 3
    /\ Len(search_history) = 2
    /\ search_history[2].feedback = [docno |-> last.arg, feedback |-> "-"]

\* the number of entries of a list of object ids with the docno and the source
CountOf(ids, docno, source) ==
    Cardinality({p \in DOMAIN ids :
                    heap[ids[p]].docno = docno /\ heap[ids[p]].from_query = source})

\* C27: all states of the history carry the same query, and the results of each
\* state have the length and the multiset of (docno, source) pairs of state 0.
C27_StatesArePermutations ==
    \A i \in DOMAIN search_history :
        /\ search_history[i].query = search_history[1].query
        /\ Len(search_history[i].results) = Len(search_history[1].results)
        /\ \A d \in CorpusDocnos, src \in {"original", "translated", "expanded"} :
                CountOf(search_history[i].results, d, src)
                    = CountOf(search_history[1].results, d, src)

\* a history whose latest state lists the three entries of state 0 in another order
C27_Witness ==
    /\ Len(search_history) >= 2
    /\ Len(search_history[1].results) = 3
    /\ search_history[Len(search_history)].results # search_history[1].results

\* C28: the list of a fresh search is fused only from the candidate lists
\* retrieved for that search; a search with the expansion switched off returns
\* no entry whose source is 'expanded'.
C28_NoStaleCandidates ==
    (last.op = "search" /\ last.outcome = "ok") =>
        LET fresh_expanded == IF expansion
                              THEN GetTopn(Retrieve(last.arg, "expanded"), RetrievalTopn)
                              ELSE <<>>
        IN  /\ View(heap, search_history[1].results)
                    = Pipeline_rank(GetTopn(Retrieve(last.arg, "original"), RetrievalTopn),
                                    GetTopn(Retrieve(last.arg, "translated"),
                                            RetrievalTopn),
                                    fresh_expanded)
            /\ ~expansion =>
                    \A id \in Range(search_history[1].results) :
                        heap[id].from_query # "expanded"

\* C29: a list produced through Pipeline.rank is the original candidates, then
\* the deduplicated translated candidates, then the deduplicated expanded
\* candidates of the pipeline, each list whole and in its own order: no
\* remainder, nothing cut.
C29_PipelineQuotasCutNothing ==
    (last.op = "search" /\ last.outcome = "ok") =>
        LET fused == ToDocs(original_top, "original")
                        \o ToDocs(NotInOriginal(original_top, translated_top), "translated")
                        \o ToDocs(NotInOriginal(original_top, expanded_top), "expanded")
            results == View(heap, search_history[1].results)
        IN  /\ Len(original_top) <= RetrievalTopn
            /\ Len(translated_top) <= RetrievalTopn
            /\ Len(expanded_top) <= RetrievalTopn
            /\ [i \in DOMAIN results |->
                    [docno |-> results[i].docno, score |-> results[i].score,
                     from_query |-> results[i].from_query]] = fused

\* a search that fused one original, two translated and two expanded candidates
C29_Witness ==
    /\ last.op = "search" /\ last.outcome = "ok"
    /\ Len(original_top) = 1 /\ Len(translated_top) = 2 /\ Len(expanded_top) = 2
    /\ Len(search_history[1].results) = 5

\* C30: given three source lists that each hold pairwise distinct docnos, the
\* list Ranker.rank returns holds no docno twice, so it has as many entries as
\* the set of its docnos has elements.
C30_DistinctDocnos ==
    RankDone =>
        /\ \A i, j \in DOMAIN call.result :
                i # j => call.result[i].docno # call.result[j].docno
        /\ Cardinality({call.result[i].docno : i \in DOMAIN call.result})
                = Len(call.result)

============================================================================
